---- MODULE Spec2Model ----
(***************************************************************************)
(* Model of package alerting (src/alerting/alerting.go): the Event record  *)
(* and its validation, the two payload renderers, and the Sender that      *)
(* posts a rendered payload to a webhook URL.                              *)
(*                                                                         *)
(* A Go string is a sequence of bytes.  A byte is written as a one-token   *)
(* TLA+ string; the two bytes "C3" "A9" are the UTF-8 encoding of one      *)
(* two-byte character.  The literal pieces of a format string are kept as  *)
(* single tokens, so fmt.Sprintf is concatenation; a backquote inside such  *)
(* a piece is written ~.                                                   *)
(***************************************************************************)
EXTENDS Integers, Sequences, FiniteSets, TLC

VARIABLES
    ev,        \* renderers/validation under test: the Event argument
    op,        \* which pure function was applied to ev ("none" before)
    out,       \* what it returned
    client,    \* Sender.Client
    pc,        \* per call: position in SendSlack/SendWebhook/sendJSON
    kind,      \* per call: "slack" (SendSlack) or "webhook" (SendWebhook)
    url,       \* per call: the webhookURL argument
    event,     \* per call: the event argument
    ctx,       \* per call: the caller's context, "live" or "cancelled"
    payload,   \* per call: the rendered payload handed to sendJSON
    renders,   \* per call: number of renderer invocations
    doCalls,   \* per call: the requests handed to s.Client.Do, in order
    net,       \* per call: the transport's view of the exchange
    status,    \* per call: status code of the response the server sent
    resp,      \* per call: status code of the response Do returned (0: none)
    result     \* per call: the returned error (Nil for a nil error)

pureVars == <<ev, op, out>>
sendVars == <<client, pc, kind, url, event, ctx, payload, renders, doCalls,
              net, status, resp, result>>
vars == <<ev, op, out, client, pc, kind, url, event, ctx, payload, renders,
          doCalls, net, status, resp, result>>

(***************************************************************************)
(* Bounds of the model.                                                    *)
(***************************************************************************)
MaxShaLen == 8      \* characters in a generated commit identifier
MaxUrlLen == 5      \* tokens in a generated webhook URL
NumCalls == 2       \* concurrent calls on one Sender

(***************************************************************************)
(* Strings.                                                                *)
(***************************************************************************)
Nil == <<>>

Min(S) == CHOOSE x \in S : \A y \in S : x <= y
Max(S) == CHOOSE x \in S : \A y \in S : y <= x

SeqsUpTo(A, n) == UNION {[1..k -> A] : k \in 0..n}

IsSpace(b) == b = " "

\* strings.TrimSpace
TrimSpace(s) ==
    LET keep == {i \in 1..Len(s) : ~IsSpace(s[i])}
    IN  IF keep = {} THEN <<>> ELSE SubSeq(s, Min(keep), Max(keep))

\* UTF-8 encoding of a character.
Utf8(r) ==
    IF r = "e'" THEN <<"C3", "A9">>
    ELSE IF r = "U+FFFD" THEN <<"EF", "BF", "BD">>
    ELSE <<r>>

\* The Go string holding the characters rs.
RECURSIVE Encode(_)
Encode(rs) == IF rs = <<>> THEN <<>> ELSE Utf8(Head(rs)) \o Encode(Tail(rs))

\* The characters of a Go string; a byte that is no part of a well-formed
\* encoding decodes to the replacement character, as a range loop does.
RECURSIVE Decode(_)
Decode(s) ==
    IF s = <<>> THEN <<>>
    ELSE IF Head(s) = "C3" /\ Len(s) >= 2 /\ s[2] = "A9"
         THEN <<"e'">> \o Decode(Tail(Tail(s)))
    ELSE IF Head(s) \in {"C3", "A9"} THEN <<"U+FFFD">> \o Decode(Tail(s))
    ELSE <<Head(s)>> \o Decode(Tail(s))

(***************************************************************************)
(* time.Time: an instant (sec, counted from the zero time) shown in a      *)
(* location east of UTC by off.                                            *)
(***************************************************************************)
IsZero(t) == t.sec = 0

UTC(t) == [sec |-> t.sec, off |-> 0]

\* t.Format(time.RFC3339): the wall clock of t in its location, then the zone.
FormatRFC3339(t) ==
    <<ToString(t.sec + t.off), IF t.off = 0 THEN "Z" ELSE "+" \o ToString(t.off)>>

(***************************************************************************)
(* Event and Event.Validate.                                               *)
(***************************************************************************)
MkEvent(repo, branch, sha, rule, path, author, at) ==
    [Repository |-> repo, Branch |-> branch, CommitSHA |-> sha, Rule |-> rule,
     FilePath |-> path, Author |-> author, DetectedAt |-> at]

\* Validate with the checks of repository and branch in the other order.
ValidateBranchFirst(e) ==
    IF TrimSpace(e.Branch) = <<>> THEN <<"branch is required">>
    ELSE IF TrimSpace(e.Repository) = <<>> THEN <<"repository is required">>
    ELSE IF TrimSpace(e.CommitSHA) = <<>> THEN <<"commit_sha is required">>
    ELSE IF TrimSpace(e.Rule) = <<>> THEN <<"rule is required">>
    ELSE IF TrimSpace(e.FilePath) = <<>> THEN <<"file_path is required">>
    ELSE IF TrimSpace(e.Author) = <<>> THEN <<"author is required">>
    ELSE IF IsZero(e.DetectedAt) THEN <<"detected_at is required">>
    ELSE Nil

\* Validate comparing the fields with "" without trimming them.
ValidateUntrimmed(e) ==
    IF e.Repository = <<>> THEN <<"repository is required">>
    ELSE IF e.Branch = <<>> THEN <<"branch is required">>
    ELSE IF e.CommitSHA = <<>> THEN <<"commit_sha is required">>
    ELSE IF e.Rule = <<>> THEN <<"rule is required">>
    ELSE IF e.FilePath = <<>> THEN <<"file_path is required">>
    ELSE IF e.Author = <<>> THEN <<"author is required">>
    ELSE IF IsZero(e.DetectedAt) THEN <<"detected_at is required">>
    ELSE Nil

Validate(e) ==
    IF TrimSpace(e.Repository) = <<>> THEN <<"repository is required">>
    ELSE IF TrimSpace(e.Branch) = <<>> THEN <<"branch is required">>
    ELSE IF TrimSpace(e.CommitSHA) = <<>> THEN <<"commit_sha is required">>
    ELSE IF TrimSpace(e.Rule) = <<>> THEN <<"rule is required">>
    ELSE IF TrimSpace(e.FilePath) = <<>> THEN <<"file_path is required">>
    ELSE IF TrimSpace(e.Author) = <<>> THEN <<"author is required">>
    ELSE IF IsZero(e.DetectedAt) THEN <<"detected_at is required">>
    ELSE Nil

(***************************************************************************)
(* BuildSlackPayload.                                                      *)
(***************************************************************************)
ShortLen == 7

SlackBlock(text) ==
    [Type |-> "section", Text |-> [Type |-> "mrkdwn", Text |-> text]]

SlackSummary(e, shortSHA) ==
    <<":rotating_light: Secret detected in ">> \o e.Repository
        \o <<" on ">> \o e.Branch \o <<" (">> \o shortSHA \o <<")">>

SlackDetail(e, sha) ==
    <<"*Repo:* ~">> \o e.Repository
        \o <<"~[U+00A5]n*Branch:* ~">> \o e.Branch
        \o <<"~[U+00A5]n*Commit:* ~">> \o sha
        \o <<"~[U+00A5]n*Rule:* ~">> \o e.Rule
        \o <<"~[U+00A5]n*File:* ~">> \o e.FilePath
        \o <<"~[U+00A5]n*Author:* ~">> \o e.Author
        \o <<"~[U+00A5]n*Detected:* ~">> \o FormatRFC3339(UTC(e.DetectedAt))
        \o <<"~">>

\* BuildSlackPayload with the shortened commit in the detail block too.
BuildSlackPayloadShortDetail(e) ==
    LET shortSHA == IF Len(e.CommitSHA) > ShortLen
                    THEN SubSeq(e.CommitSHA, 1, ShortLen) ELSE e.CommitSHA
        summary == SlackSummary(e, shortSHA)
    IN  [Text |-> summary,
         Blocks |-> <<SlackBlock(summary), SlackBlock(SlackDetail(e, shortSHA))>>]

BuildSlackPayload(e) ==
    LET shortSHA == IF Len(e.CommitSHA) > ShortLen
                    THEN SubSeq(e.CommitSHA, 1, ShortLen) ELSE e.CommitSHA
        summary == SlackSummary(e, shortSHA)
    IN  [Text |-> summary,
         Blocks |-> <<SlackBlock(summary), SlackBlock(SlackDetail(e, e.CommitSHA))>>]

(***************************************************************************)
(* BuildWebhookPayload.                                                    *)
(***************************************************************************)
\* BuildWebhookPayload without the conversion to UTC.
BuildWebhookPayloadLocalTime(e) ==
    [Event |-> "secret.detected", Repository |-> e.Repository,
     Branch |-> e.Branch, CommitSHA |-> e.CommitSHA, Rule |-> e.Rule,
     FilePath |-> e.FilePath, Author |-> e.Author,
     DetectedAt |-> FormatRFC3339(e.DetectedAt)]

BuildWebhookPayload(e) ==
    [Event |-> "secret.detected", Repository |-> e.Repository,
     Branch |-> e.Branch, CommitSHA |-> e.CommitSHA, Rule |-> e.Rule,
     FilePath |-> e.FilePath, Author |-> e.Author,
     DetectedAt |-> FormatRFC3339(UTC(e.DetectedAt))]

(***************************************************************************)
(* net/url as sendJSON and http.NewRequestWithContext use it.  A URL is a  *)
(* sequence of tokens: "http" (a run of letters), ":", "/" and " ".        *)
(***************************************************************************)
UrlTokens == {"http", ":", "/", " "}

HasPrefix(s, p) == Len(s) >= Len(p) /\ SubSeq(s, 1, Len(p)) = p

\* Index of the first t in s, 0 when there is none (strings.Index + 1).
IndexOf(s, t) ==
    LET at == {i \in 1..Len(s) : s[i] = t} IN IF at = {} THEN 0 ELSE Min(at)

LastIndexOf(s, t) ==
    LET at == {i \in 1..Len(s) : s[i] = t} IN IF at = {} THEN 0 ELSE Max(at)

\* url.getScheme: the index of the colon that ends the scheme, 0 when the
\* string has no scheme, -1 for "missing protocol scheme".
RECURSIVE SchemeEnd(_, _)
SchemeEnd(raw, i) ==
    IF i > Len(raw) THEN 0
    ELSE IF raw[i] = "http" THEN SchemeEnd(raw, i + 1)
    ELSE IF raw[i] = ":" THEN (IF i = 1 THEN -1 ELSE i)
    ELSE 0

UrlError(msg) ==
    [ok |-> FALSE, err |-> msg, Scheme |-> <<>>, Host |-> <<>>,
     Path |-> <<>>, Opaque |-> <<>>]

UrlValue(scheme, host, path, opaque) ==
    [ok |-> TRUE, err |-> "", Scheme |-> scheme, Host |-> host,
     Path |-> path, Opaque |-> opaque]

\* url.parseHost: what follows the last colon must be a port (digits, of
\* which the alphabet has none), and a space is no host character.
HostError(host) ==
    LET c == LastIndexOf(host, ":")
    IN  IF c > 0 /\ c < Len(host) THEN "invalid port after host"
        ELSE IF IndexOf(host, " ") > 0 THEN "invalid character in host name"
        ELSE ""

\* url.parse(rawURL, viaRequest)
ParseURL(raw, viaRequest) ==
    LET se == SchemeEnd(raw, 1)
        scheme == IF se > 0 THEN SubSeq(raw, 1, se - 1) ELSE <<>>
        rest == IF se > 0 THEN SubSeq(raw, se + 1, Len(raw)) ELSE raw
        auth0 == SubSeq(rest, 3, Len(rest))
        slash == IndexOf(auth0, "/")
        authority == IF slash > 0 THEN SubSeq(auth0, 1, slash - 1) ELSE auth0
        path == IF slash > 0 THEN SubSeq(auth0, slash, Len(auth0)) ELSE <<>>
    IN  IF raw = <<>> /\ viaRequest THEN UrlError("empty url")
        ELSE IF se = -1 THEN UrlError("missing protocol scheme")
        ELSE IF ~HasPrefix(rest, <<"/">>)
        THEN IF scheme # <<>> THEN UrlValue(scheme, <<>>, <<>>, rest)
             ELSE IF viaRequest THEN UrlError("invalid URI for request")
             ELSE IF IndexOf(rest, ":") > 0
                     /\ (IndexOf(rest, "/") = 0
                         \/ IndexOf(rest, ":") < IndexOf(rest, "/"))
             THEN UrlError("first path segment in URL cannot contain colon")
             ELSE UrlValue(scheme, <<>>, rest, <<>>)
        ELSE IF (scheme # <<>>
                    \/ (~viaRequest /\ ~HasPrefix(rest, <<"/", "/", "/">>)))
                /\ HasPrefix(rest, <<"/", "/">>)
        THEN IF HostError(authority) # "" THEN UrlError(HostError(authority))
             ELSE UrlValue(scheme, authority, path, <<>>)
        ELSE UrlValue(scheme, <<>>, rest, <<>>)

\* url.ParseRequestURI
ParseRequestURI(raw) == ParseURL(raw, TRUE)

\* url.Parse (no fragment in the alphabet)
Parse(raw) == ParseURL(raw, FALSE)

\* sendJSON, the two checks of the URL (Nil when it passes)
UrlCheck(u) ==
    IF TrimSpace(u) = <<>> THEN <<"webhook URL is required">>
    ELSE IF ~ParseRequestURI(u).ok
    THEN <<"invalid webhook URL: ", ParseRequestURI(u).err>>
    ELSE Nil

(***************************************************************************)
(* encoding/json: the field names of the wire format, and strings coerced  *)
(* to valid UTF-8.                                                         *)
(***************************************************************************)
ToValidUTF8(s) == Encode(Decode(s))

JsonBlock(b) ==
    [type |-> b.Type,
     text |-> [type |-> b.Text.Type, text |-> ToValidUTF8(b.Text.Text)]]

Marshal(p) ==
    IF "Blocks" \in DOMAIN p
    THEN [text |-> ToValidUTF8(p.Text),
          blocks |-> [i \in DOMAIN p.Blocks |-> JsonBlock(p.Blocks[i])]]
    ELSE [event |-> p.Event,
          repository |-> ToValidUTF8(p.Repository),
          branch |-> ToValidUTF8(p.Branch),
          commit_sha |-> ToValidUTF8(p.CommitSHA),
          rule |-> ToValidUTF8(p.Rule),
          file_path |-> ToValidUTF8(p.FilePath),
          author |-> ToValidUTF8(p.Author),
          detected_at |-> p.DetectedAt]

(***************************************************************************)
(* Sender.                                                                 *)
(***************************************************************************)
Calls == 1..NumCalls

\* NewSender
NewSender(cl) == IF cl = "nil" THEN "http.DefaultClient" ELSE cl

NoPayload == [none |-> TRUE]

\* SendSlack renders with BuildSlackPayload, SendWebhook with
\* BuildWebhookPayload.
Render(k, e) ==
    IF k = "slack" THEN BuildSlackPayload(e) ELSE BuildWebhookPayload(e)

\* The rendering of whatever event the first caller passed, as when the
\* payload is kept in a slot of the Sender that every call shares.
RenderSharedSlot(k, e) == Render(k, event[1])

\* The renderer sendJSON's argument is evaluated with.
RenderArg(k, e) == Render(k, e)

\* http.NewRequestWithContext drops an empty port from the host
\* (removeEmptyPort); req.Header.Set follows.
NewRequest(u, body) ==
    LET p == Parse(u)
        host == IF p.Host # <<>> /\ p.Host[Len(p.Host)] = ":"
                THEN SubSeq(p.Host, 1, Len(p.Host) - 1) ELSE p.Host
    IN  [Method |-> "POST", URL |-> [p EXCEPT !.Host = host],
         ContentType |-> "application/json", Body |-> body]

\* http.Transport.roundTrip turns away a request it cannot dial.
TransportRefuses(req) ==
    req.URL.Scheme # <<"http">> \/ req.URL.Host = <<>>

RefusalError(req) ==
    IF req.URL.Scheme # <<"http">> THEN <<"unsupported protocol scheme">>
    ELSE <<"http: no Host in request URL">>

\* A request that is bound to no context: Do waits for the exchange to end.
DoReadyNoContext(n, x) == n # "pending"

\* When s.Client.Do has something to return: the exchange ended, or the
\* context the request is bound to is done.

DoReady(n, x) == n # "pending" \/ x = "cancelled"

\* What s.Client.Do may return then: an error (code 0) or a response.  When
\* the response and the cancellation are both there, either may win.
DoOutcomes(n, x, s, req) ==
    (IF n = "refused" THEN {[err |-> RefusalError(req), code |-> 0]} ELSE {})
    \cup (IF n = "failed" THEN {[err |-> <<"connection failure">>, code |-> 0]}
          ELSE {})
    \cup (IF n = "responded" THEN {[err |-> Nil, code |-> s]} ELSE {})
    \cup (IF x = "cancelled" /\ n # "refused"
          THEN {[err |-> <<"context canceled">>, code |-> 0]} ELSE {})

\* The classification with 300 taken for a success.
StatusResultOffByOne(code) ==
    IF code < 200 \/ code > 300
    THEN <<"webhook returned status ", ToString(code)>>
    ELSE Nil

\* sendJSON, the classification of the response
StatusResult(code) ==
    IF code < 200 \/ code >= 300
    THEN <<"webhook returned status ", ToString(code)>>
    ELSE Nil

\* A caller enters SendSlack (kind "slack") or SendWebhook with the
\* arguments <<kind, webhookURL, event>>.
Call(c, Args) ==
    /\ pc[c] = "idle"
    /\ \E a \in Args :
        /\ kind' = [kind EXCEPT ![c] = a[1]]
        /\ url' = [url EXCEPT ![c] = a[2]]
        /\ event' = [event EXCEPT ![c] = a[3]]
    /\ pc' = [pc EXCEPT ![c] = "entered"]
    /\ UNCHANGED <<pureVars, client, ctx, payload, renders, doCalls, net,
                   status, resp, result>>

\* SendSlack / SendWebhook up to the call of sendJSON.
Enter(c) ==
    /\ pc[c] = "entered"
    /\ IF Validate(event[c]) # Nil
       THEN /\ result' = [result EXCEPT
                             ![c] = <<"invalid event: ">> \o Validate(event[c])]
            /\ pc' = [pc EXCEPT ![c] = "done"]
            /\ UNCHANGED <<payload, renders>>
       ELSE /\ payload' = [payload EXCEPT ![c] = RenderArg(kind[c], event[c])]
            /\ renders' = [renders EXCEPT ![c] = @ + 1]
            /\ pc' = [pc EXCEPT ![c] = "sendJSON"]
            /\ UNCHANGED result
    /\ UNCHANGED <<pureVars, client, kind, url, event, ctx, doCalls, net,
                   status, resp>>

\* sendJSON up to the call of s.Client.Do.  json.Marshal cannot fail on a
\* payload of strings, and the context is never nil.
SendJSON(c) ==
    /\ pc[c] = "sendJSON"
    /\ IF UrlCheck(url[c]) # Nil
       THEN /\ result' = [result EXCEPT ![c] = UrlCheck(url[c])]
            /\ pc' = [pc EXCEPT ![c] = "done"]
            /\ UNCHANGED <<doCalls, net>>
       ELSE IF ~Parse(url[c]).ok
       THEN /\ result' = [result EXCEPT
                             ![c] = <<"build request: ", Parse(url[c]).err>>]
            /\ pc' = [pc EXCEPT ![c] = "done"]
            /\ UNCHANGED <<doCalls, net>>
       ELSE LET req == NewRequest(url[c], Marshal(payload[c]))
            IN  /\ doCalls' = [doCalls EXCEPT ![c] = Append(@, req)]
                /\ net' = [net EXCEPT ![c] = IF TransportRefuses(req)
                                             THEN "refused" ELSE "pending"]
                /\ pc' = [pc EXCEPT ![c] = "Do"]
                /\ UNCHANGED result
    /\ UNCHANGED <<pureVars, client, kind, url, event, ctx, payload, renders,
                   status, resp>>

\* The endpoint answers; the answer reaches the transport only while the
\* request has not been cancelled.
ServerRespond(c, S) ==
    /\ pc[c] = "Do" /\ net[c] = "pending" /\ ctx[c] = "live"
    /\ \E s \in S : status' = [status EXCEPT ![c] = s]
    /\ net' = [net EXCEPT ![c] = "responded"]
    /\ UNCHANGED <<pureVars, client, pc, kind, url, event, ctx, payload,
                   renders, doCalls, resp, result>>

\* The connection fails.
NetFail(c) ==
    /\ pc[c] = "Do" /\ net[c] = "pending"
    /\ net' = [net EXCEPT ![c] = "failed"]
    /\ UNCHANGED <<pureVars, client, pc, kind, url, event, ctx, payload,
                   renders, doCalls, status, resp, result>>

\* The caller cancels the context, or its deadline passes.
Cancel(c) ==
    /\ pc[c] \in {"entered", "sendJSON", "Do"} /\ ctx[c] = "live"
    /\ ctx' = [ctx EXCEPT ![c] = "cancelled"]
    /\ UNCHANGED <<pureVars, client, pc, kind, url, event, payload, renders,
                   doCalls, net, status, resp, result>>

\* s.Client.Do returns and sendJSON classifies what it returned.
DoReturn(c) ==
    /\ pc[c] = "Do"
    /\ DoReady(net[c], ctx[c])
    /\ \E o \in DoOutcomes(net[c], ctx[c], status[c], doCalls[c][Len(doCalls[c])]) :
        /\ resp' = [resp EXCEPT ![c] = o.code]
        /\ result' = [result EXCEPT
                         ![c] = IF o.err # Nil THEN <<"send webhook: ">> \o o.err
                                ELSE StatusResult(o.code)]
    /\ pc' = [pc EXCEPT ![c] = "done"]
    /\ UNCHANGED <<pureVars, client, kind, url, event, ctx, payload, renders,
                   doCalls, net, status>>

(***************************************************************************)
(* Inputs.                                                                 *)
(***************************************************************************)
Kinds == {"slack", "webhook"}

ZeroTime == [sec |-> 0, off |-> 0]
Noon == [sec |-> 12, off |-> 0]
NoonEast == [sec |-> 12, off |-> 1]

LongSha == [i \in 1..(ShortLen + 2) |-> "a"]

GoodEvent == MkEvent(<<"a">>, <<"a">>, LongSha, <<"a">>, <<"a">>, <<"a">>, Noon)
OtherEvent ==
    MkEvent(<<" ", "a">>, <<"a", "a">>, <<"a">>, <<"a">>, <<"a">>, <<"a", " ">>,
            NoonEast)

StringFields ==
    <<"Repository", "Branch", "CommitSHA", "Rule", "FilePath", "Author">>

\* GoodEvent with one field blank: empty for the odd fields, a space for the
\* even ones.
BlankedEvents ==
    {[GoodEvent EXCEPT ![StringFields[i]] = IF i % 2 = 1 THEN <<>> ELSE <<" ">>] :
        i \in DOMAIN StringFields}

DispatchEvents ==
    {GoodEvent, OtherEvent} \cup BlankedEvents
        \cup {[GoodEvent EXCEPT !.DetectedAt = ZeroTime],
              [OtherEvent EXCEPT !.Author = <<" ">>, !.DetectedAt = ZeroTime]}

Urls == SeqsUpTo(UrlTokens, MaxUrlLen)

GoodUrl == <<"http", ":", "/", "/", "http">>

StatusCodes == {101, 200, 204, 299, 300, 400, 500}

(***************************************************************************)
(* Spec: one caller, every URL and every dispatch event.                   *)
(***************************************************************************)
SenderInit(cl) ==
    /\ client = NewSender(cl)
    /\ pc = [c \in Calls |-> "idle"]
    /\ kind = [c \in Calls |-> "slack"]
    /\ url = [c \in Calls |-> <<>>]
    /\ event = [c \in Calls |-> GoodEvent]
    /\ ctx = [c \in Calls |-> "live"]
    /\ payload = [c \in Calls |-> NoPayload]
    /\ renders = [c \in Calls |-> 0]
    /\ doCalls = [c \in Calls |-> <<>>]
    /\ net = [c \in Calls |-> "none"]
    /\ status = [c \in Calls |-> 0]
    /\ resp = [c \in Calls |-> 0]
    /\ result = [c \in Calls |-> Nil]

PureIdle == ev = GoodEvent /\ op = "none" /\ out = Nil

Init == PureIdle /\ \E cl \in {"nil", "custom"} : SenderInit(cl)

Next ==
    \/ Call(1, Kinds \X Urls \X DispatchEvents)
    \/ Enter(1)
    \/ SendJSON(1)
    \/ ServerRespond(1, StatusCodes)
    \/ NetFail(1)
    \/ Cancel(1)
    \/ DoReturn(1)

Spec == Init /\ [][Next]_vars

\* A Client.Do that has something to return does return.
FairSpec == Spec /\ WF_vars(DoReturn(1))

(***************************************************************************)
(* ConcSpec: NumCalls callers share one Sender.                            *)
(***************************************************************************)
BlankRule == [GoodEvent EXCEPT !.Rule = <<" ">>]

ConcArgs ==
    {<<"slack", GoodUrl, GoodEvent>>, <<"slack", GoodUrl, OtherEvent>>,
     <<"webhook", GoodUrl, OtherEvent>>, <<"webhook", <<" ">>, BlankRule>>}

ConcStatusCodes == {200, 500}

ConcInit == PureIdle /\ SenderInit("custom")

ConcNext ==
    \E c \in Calls :
        \/ Call(c, ConcArgs)
        \/ Enter(c)
        \/ SendJSON(c)
        \/ ServerRespond(c, ConcStatusCodes)
        \/ NetFail(c)
        \/ Cancel(c)
        \/ DoReturn(c)

ConcSpec == ConcInit /\ [][ConcNext]_vars

(***************************************************************************)
(* PureSpec: Validate and the two renderers applied to an Event.           *)
(***************************************************************************)
FieldSamples == {<<>>, <<" ">>, <<"a", " ">>}

ZeroEast == [sec |-> 0, off |-> 1]

Times == {ZeroTime, ZeroEast, Noon, NoonEast}

ValidationEvents ==
    {MkEvent(f[1], f[2], f[3], f[4], f[5], f[6], t) :
        f \in [1..6 -> FieldSamples], t \in Times}

ShaEvents ==
    {MkEvent(<<"a">>, <<"a">>, Encode(r), <<"a">>, <<"a">>, <<"a">>, t) :
        r \in SeqsUpTo({"a", "e'"}, MaxShaLen), t \in {Noon, NoonEast}}

PureInit ==
    /\ ev \in ValidationEvents \cup ShaEvents
    /\ op = "none"
    /\ out = Nil
    /\ SenderInit("nil")

ApplyValidate ==
    /\ op = "none"
    /\ op' = "Validate"
    /\ out' = Validate(ev)
    /\ UNCHANGED <<ev, sendVars>>

ApplyBuildSlackPayload ==
    /\ op = "none"
    /\ op' = "BuildSlackPayload"
    /\ out' = BuildSlackPayload(ev)
    /\ UNCHANGED <<ev, sendVars>>

ApplyBuildWebhookPayload ==
    /\ op = "none"
    /\ op' = "BuildWebhookPayload"
    /\ out' = BuildWebhookPayload(ev)
    /\ UNCHANGED <<ev, sendVars>>

PureNext ==
    \/ ApplyValidate
    \/ ApplyBuildSlackPayload
    \/ ApplyBuildWebhookPayload

PureSpec == PureInit /\ [][PureNext]_vars

(***************************************************************************)
(* What the properties speak of.                                           *)
(***************************************************************************)
Blank(s) == \A i \in 1..Len(s) : s[i] = " "

FieldNames ==
    <<"repository", "branch", "commit_sha", "rule", "file_path", "author",
      "detected_at">>

\* The constraints an Event violates, by their place in the fixed order.
Violated(e) ==
    {i \in 1..6 : Blank(e[StringFields[i]])}
        \cup (IF e.DetectedAt.sec = 0 THEN {7} ELSE {})

FirstViolation(e) == <<FieldNames[Min(Violated(e))] \o " is required">>

\* The errors that say the URL is at fault; "build request: " is among them,
\* since a request is refused only for its URL.
ConfigErrors ==
    {"webhook URL is required", "invalid webhook URL: ", "build request: "}

AbsoluteUrl(u) == Parse(u).ok /\ Parse(u).Scheme # <<>>

\* C1: a call whose Event has a blank required field or a zero DetectedAt
\* returns "invalid event: " wrapping the validation error, whatever the URL;
\* no renderer runs and nothing is handed to the HTTP client.
C1_InvalidEventNeverSent ==
    \A c \in Calls :
        (pc[c] # "idle" /\ Violated(event[c]) # {}) =>
            /\ pc[c] \in {"entered", "done"}
            /\ renders[c] = 0 /\ payload[c] = NoPayload
            /\ doCalls[c] = <<>> /\ net[c] = "none"
            /\ pc[c] = "done" =>
                  result[c] = <<"invalid event: ">> \o FirstViolation(event[c])

C1_Witness ==
    \E c \in Calls :
        /\ pc[c] = "done" /\ url[c] = GoodUrl
        /\ event[c].Author = <<" ">> /\ event[c].DetectedAt.sec # 0
        /\ Head(result[c]) = "invalid event: "

\* C2: with a valid Event, a destination URL that is blank or is no
\* well-formed absolute URL fails with a URL error, before anything is handed
\* to the HTTP client, and never as a transport or delivery error.
C2_BadUrlIsConfigError ==
    \A c \in Calls :
        (pc[c] = "done" /\ Violated(event[c]) = {}
            /\ (Blank(url[c]) \/ ~AbsoluteUrl(url[c]))) =>
            /\ doCalls[c] = <<>>
            /\ result[c] # Nil /\ Head(result[c]) \in ConfigErrors

\* C3: once Do has returned a response, the call succeeds exactly when the
\* status code is in 200..299, and otherwise its error carries the code; a
\* call succeeds in no other way.
C3_StatusDecides ==
    \A c \in Calls :
        pc[c] = "done" =>
            /\ resp[c] # 0 =>
                  /\ result[c] = Nil <=> (200 <= resp[c] /\ resp[c] <= 299)
                  /\ result[c] # Nil =>
                        result[c] = <<"webhook returned status ", ToString(resp[c])>>
            /\ result[c] = Nil => resp[c] \in 200..299

C3_Witness ==
    \E c \in Calls : pc[c] = "done" /\ resp[c] = 300 /\ result[c] # Nil

\* C4: a call whose Event passes Validate and whose URL passes the URL
\* check of sendJSON hands exactly one POST with Content-Type
\* application/json to the HTTP client, and no call hands over more than one.
C4_ExactlyOnePost ==
    \A c \in Calls :
        /\ Len(doCalls[c]) <= 1
        /\ \A i \in DOMAIN doCalls[c] :
              /\ doCalls[c][i].Method = "POST"
              /\ doCalls[c][i].ContentType = "application/json"
        /\ (pc[c] = "done" /\ Violated(event[c]) = {} /\ UrlCheck(url[c]) = Nil)
              => Len(doCalls[c]) = 1

\* C5: when the context is cancelled while the request is out and no
\* response has come, the call returns, and what it returns is the transport
\* error "send webhook: ...", not success and not a status error.  (Call 1 is
\* the caller of FairSpec.)
C5_CancelEndsCall ==
    \A c \in {1} :
        (pc[c] = "Do" /\ net[c] = "pending" /\ ctx[c] = "cancelled")
            ~> (pc[c] = "done" /\ resp[c] = 0 /\ result[c] # Nil
                    /\ Head(result[c]) = "send webhook: ")

C5_Witness ==
    \E c \in Calls :
        /\ pc[c] = "done" /\ ctx[c] = "cancelled" /\ net[c] = "pending"
        /\ Len(doCalls[c]) = 1
        /\ result[c] = <<"send webhook: ", "context canceled">>

\* What a finished call returns, from its own arguments and the answer to
\* its own request.
OwnResults(c) ==
    IF Violated(event[c]) # {}
    THEN {<<"invalid event: ">> \o FirstViolation(event[c])}
    ELSE IF UrlCheck(url[c]) # Nil THEN {UrlCheck(url[c])}
    ELSE IF resp[c] # 0 THEN {StatusResult(resp[c])}
    ELSE {<<"send webhook: ">> \o o.err :
            o \in {x \in DoOutcomes(net[c], ctx[c], status[c], doCalls[c][1]) :
                      x.err # Nil}}

\* C6: with several calls running on one Sender, in every interleaving the
\* payload a call renders, the request it posts and the error it returns
\* come from its own kind, event, URL, context and response, and no step
\* changes the Sender's Client.
C6_CallsIndependent ==
    /\ [](\A c \in Calls :
            /\ payload[c] \in {NoPayload, Render(kind[c], event[c])}
            /\ \A i \in DOMAIN doCalls[c] :
                  /\ doCalls[c][i].Body = Marshal(Render(kind[c], event[c]))
                  /\ doCalls[c][i].URL.Host = Parse(url[c]).Host
            /\ pc[c] = "done" => result[c] \in OwnResults(c))
    /\ [][client' = client]_vars

C6_Witness ==
    \E c, d \in Calls :
        /\ pc[c] = "done" /\ pc[d] = "done"
        /\ kind[c] = kind[d] /\ event[c] # event[d]
        /\ Len(doCalls[c]) = 1 /\ Len(doCalls[d]) = 1
        /\ doCalls[c][1].Body # doCalls[d][1].Body
        /\ result[c] = Nil /\ result[d] # Nil

\* C7: Validate returns nil exactly when no string field is blank after
\* trimming and the timestamp is not zero; otherwise it returns one error,
\* naming the first violated constraint in the order repository, branch,
\* commit_sha, rule, file_path, author, detected_at.
C7_FirstViolationReported ==
    op = "Validate" =>
        /\ out = Nil <=> Violated(ev) = {}
        /\ Violated(ev) # {} => out = FirstViolation(ev)

C7_Witness ==
    /\ op = "Validate"
    /\ Cardinality(Violated(ev)) >= 2
    /\ ev.Repository = <<"a", " ">> /\ ev.Branch = <<" ">>
    /\ out = <<"branch is required">>

CommitLabel == "~[U+00A5]n*Commit:* ~"

\* C8: BuildSlackPayload yields two blocks, the summary (equal to the
\* top-level text) then the detail, each a "section" of "mrkdwn" text, and
\* the detail holds the whole commit identifier.
C8_TwoBlocksFullCommit ==
    op = "BuildSlackPayload" =>
        /\ Len(out.Blocks) = 2
        /\ \A i \in 1..2 :
              out.Blocks[i].Type = "section" /\ out.Blocks[i].Text.Type = "mrkdwn"
        /\ out.Blocks[1].Text.Text = out.Text
        /\ Head(out.Text) = ":rotating_light: Secret detected in "
        /\ LET detail == out.Blocks[2].Text.Text
               at == IndexOf(detail, CommitLabel)
           IN  /\ Head(detail) = "*Repo:* ~"
               /\ at > 0
               /\ SubSeq(detail, at + 1, at + Len(ev.CommitSHA)) = ev.CommitSHA
               /\ detail[at + Len(ev.CommitSHA) + 1] = "~[U+00A5]n*Rule:* ~"

C8_Witness ==
    /\ op = "BuildSlackPayload"
    /\ Len(ev.CommitSHA) > ShortLen
    /\ Len(out.Text) < Len(out.Blocks[2].Text.Text)

\* The first n characters of a string, the string itself when it has no more.
FirstChars(s, n) ==
    IF Len(Decode(s)) > n THEN Encode(SubSeq(Decode(s), 1, n)) ELSE s

\* C9: the summary shows the first 7 characters of a commit identifier
\* longer than 7 characters, and a commit identifier of 7 characters or
\* less unchanged, multi-byte characters included.
C9_ShortenByCharacters ==
    op = "BuildSlackPayload" =>
        out.Text = <<":rotating_light: Secret detected in ">> \o ev.Repository
                      \o <<" on ">> \o ev.Branch
                      \o <<" (">> \o FirstChars(ev.CommitSHA, 7) \o <<")">>

\* C10: BuildWebhookPayload sets event to "secret.detected", copies the six
\* string fields as they are, and sets detected_at to the instant written in
\* UTC.
C10_WebhookVerbatimUTC ==
    op = "BuildWebhookPayload" =>
        /\ out.Event = "secret.detected"
        /\ out.Repository = ev.Repository /\ out.Branch = ev.Branch
        /\ out.CommitSHA = ev.CommitSHA /\ out.Rule = ev.Rule
        /\ out.FilePath = ev.FilePath /\ out.Author = ev.Author
        /\ out.DetectedAt = <<ToString(ev.DetectedAt.sec), "Z">>

C10_Witness ==
    /\ op = "BuildWebhookPayload"
    /\ ev.DetectedAt = NoonEast
    /\ ev.Author = <<"a", " ">> /\ ev.Rule = <<" ">>
    /\ out.DetectedAt = <<"12", "Z">>

====
